---- MODULE Spec2Model ----
(***************************************************************************)
(* MRChemHarness (src/qcengine/programs/mrchem.py): the compute call, from *)
(* found() to the returned AtomicResult or the raised fault, and the       *)
(* version query with its class-level cache.                               *)
(***************************************************************************)
EXTENDS Integers, Sequences, FiniteSets, TLC

VARIABLES
    pc,              \* position of the compute call
    driver,          \* input_model.driver
    folders,         \* job_input["folders"]
    command,         \* job_input["command"]
    fi,              \* index of the folder the "create folders" loop is at
    fs,              \* the filesystem entry at each folder path
    tmpdir,          \* the scratch directory of the with block
    output_data,     \* the dict compute fills
    error_type,      \* local of compute
    error_message,   \* local of compute
    compute_success, \* local of compute
    exec_out,        \* (success, output) returned by execute
    mrchem_output,   \* the "output" section of the program's data.json
    execs,           \* how often this call has run the main program
    parsed,          \* this call has parsed the program's data.json
    fault,           \* the failure an external collaborator raised in build_input
    raised,          \* the exception compute ended with
    returned,        \* the AtomicResult compute returned
    vpc,             \* position of each caller of get_version
    which_prog,      \* each caller's which("mrchem.x")
    exc_stdout,      \* each caller's exc["stdout"]
    vret,            \* what each caller's last get_version returned
    vraised,         \* the exception each caller's last get_version ended with
    version_cache,   \* MRChemHarness.version_cache
    queries,         \* per path, the "--version" subprocesses launched
    writes,          \* per path, the assignments to version_cache[path]
    hitq,            \* per caller, the subprocesses launched by its current call
    callers          \* the threads that call get_version

cvars == <<pc, driver, folders, command, fi, fs, tmpdir, output_data, error_type,
           error_message, compute_success, exec_out, mrchem_output, execs, parsed,
           fault, raised, returned>>
vvars == <<vpc, which_prog, exc_stdout, vret, vraised, version_cache, queries,
           writes, hitq, callers>>
vars == <<cvars, vvars>>

\* Python's None, and a str value.
PyNone == [py |-> "None"]
PyStr(t) == [py |-> "str", s |-> t]

-----------------------------------------------------------------------------
(* Texts are sequences of characters, so that Python's substring test and   *)
(* its case-sensitivity are what the model computes.                        *)

T_SIGSEV == <<"S","I","G","S","E","V">>
T_SIGSEGV == <<"S","I","G","S","E","G","V">>
T_segfault == <<"s","e","g","m","e","n","t","a","t","i","o","n"," ","f","a","u","l","t">>

\* Python's `sub in text` for two str values.
PyIn(sub, text) ==
    \E i \in 0..(Len(text) - Len(sub)) : SubSeq(text, i + 1, i + Len(sub)) = sub

Lower(c) ==
    CASE c = "S" -> "s" [] c = "I" -> "i" [] c = "G" -> "g" [] c = "E" -> "e"
      [] c = "V" -> "v" [] c = "F" -> "f" [] c = "C" -> "c" [] OTHER -> c

ToLower(text) == [i \in 1..Len(text) |-> Lower(text[i])]

\* The captured stderr texts the runs draw from.
StderrTexts ==
    { <<>>,
      <<"e","r","r"," ">> \o T_SIGSEGV,
      T_SIGSEV \o <<" ","x">>,
      <<"r","c"," ">> \o T_segfault,
      <<"S","e","g","m","e","n","t","a","t","i","o","n"," ","f","a","u","l","t">>,
      <<"s","i","g","s","e","g","v">>,
      <<"S","C","F"," ","f","a","i","l","e","d">> }

-----------------------------------------------------------------------------
(* The inputs of a compute call.                                            *)

Drivers == {"energy", "properties", "gradient"}

\* The options validate() hands back: the five paths build_input reads.
ValidatedOpts ==
    { [SCF |-> [path_checkpoint |-> "checkpoint", path_orbitals |-> "orbitals"],
       Response |-> [path_checkpoint |-> "checkpoint", path_orbitals |-> "orbitals"],
       Plotter |-> [path |-> "plots"]],
      [SCF |-> [path_checkpoint |-> "checkpoint", path_orbitals |-> "orbitals"],
       Response |-> [path_checkpoint |-> "checkpoint", path_orbitals |-> "rsp/orbitals"],
       Plotter |-> [path |-> "plots"]] }

PathNames == {"checkpoint", "orbitals", "plots", "rsp/orbitals"}

\* What can be at a path: nothing (with or without the parent directory to
\* create it in), a directory, or a regular file.
FsStates ==
    { f \in [PathNames -> {"absent", "orphan", "dir", "file"}] :
        \A p \in PathNames : f[p] = "orphan" => p = "rsp/orbitals" }

\* Path(d).exists()
PathExists(f, d) == f[d] \in {"dir", "file"}

\* Path(d).mkdir(): the directory is made when its parent is there.
MkdirOk(f, d) == f[d] = "absent"

\* The failures the external validator and translator raise (subclasses of
\* Exception), with their messages.
ExternalFailures ==
    { [type |-> "ValueError", message |-> <<"b","a","d"," ","k","e","y">>],
      [type |-> "RuntimeError", message |-> <<"n","o"," ","b","a","s","i","s">>] }

NoFault == [src |-> "None", type |-> "None", message |-> <<>>]
NoRaise == [type |-> "None", message |-> <<>>]

\* The program's data.json after a run that execute reports as successful.
NativeOutputs ==
    {[malformed |-> TRUE, success |-> FALSE, E_tot |-> 0, dipole |-> FALSE]} \cup
    [malformed : {FALSE}, success : BOOLEAN, E_tot : {-76}, dipole : BOOLEAN]

PropertyKeys ==
    {"calcinfo_nmo", "calcinfo_nalpha", "calcinfo_nbeta", "calcinfo_natom",
     "return_energy", "scf_one_electron_energy", "scf_two_electron_energy",
     "nuclear_repulsion_energy", "scf_xc_energy", "scf_total_energy",
     "scf_iterations"}

EmptyOutputData ==
    [properties |-> {}, return_result |-> PyNone, error |-> PyNone,
     success |-> PyNone, driver |-> PyNone, stdout |-> FALSE, stderr |-> PyNone,
     provenance |-> FALSE]

-----------------------------------------------------------------------------
(* The scratch directory: temporary_directory creates it on entry and       *)
(* removes it on exit; the with statement runs that exit however the block  *)
(* is left.                                                                 *)

temporary_directory_enter == "exists"
temporary_directory_exit(t) == IF t = "exists" THEN "removed" ELSE t

ExitWith_OnlyOnNormalExit(t, exceptional) ==
    IF exceptional THEN t ELSE temporary_directory_exit(t)

ExitWith(t, exceptional) == temporary_directory_exit(t)

\* An exception leaves compute from inside the with block.
RaiseInWith(type, message) ==
    /\ raised' = [type |-> type, message |-> message]
    /\ tmpdir' = ExitWith(tmpdir, TRUE)
    /\ pc' = "done"

\* An exception leaves compute from outside the with block.
Raise(type, message) ==
    /\ raised' = [type |-> type, message |-> message]
    /\ pc' = "done"

-----------------------------------------------------------------------------
(* compute, lines 92-189, and build_input, lines 191-262.                   *)

\* The state of a call that has not begun.
IdleLocals ==
    /\ driver = "None" /\ folders = <<>> /\ command = <<>> /\ fi = 1
    /\ tmpdir = "none" /\ output_data = PyNone
    /\ error_type = PyNone /\ error_message = PyNone /\ compute_success = FALSE
    /\ exec_out = PyNone /\ mrchem_output = PyNone /\ execs = 0 /\ parsed = FALSE
    /\ fault = NoFault /\ raised = NoRaise /\ returned = PyNone

\* Lines 92-103: a call begins; found(raise_error=True) raises when either
\* executable is missing; the three locals are set.
compute(d, installed) ==
    /\ pc \in {"idle", "done"}
    /\ driver' = d
    /\ folders' = <<>> /\ command' = <<>> /\ fi' = 1
    /\ tmpdir' = "none" /\ output_data' = PyNone
    /\ error_type' = PyNone /\ error_message' = PyNone /\ compute_success' = FALSE
    /\ exec_out' = PyNone /\ mrchem_output' = PyNone /\ execs' = 0 /\ parsed' = FALSE
    /\ fault' = NoFault /\ returned' = PyNone
    /\ IF installed
          THEN raised' = NoRaise /\ pc' = "build_input"
          ELSE Raise("ModuleNotFoundError", <<"Please install via https://mrchem.readthedocs.io">>)
    /\ UNCHANGED <<fs, vvars>>

\* Lines 192-194: the "mrchem --module" query; wait(timeout=30) may raise.
build_input_module(responds) ==
    /\ pc = "build_input"
    /\ IF responds
          THEN pc' = "validate" /\ UNCHANGED <<raised, fault>>
          ELSE /\ fault' = [src |-> "popen", type |-> "TimeoutExpired", message |-> <<"timed out">>]
               /\ Raise("TimeoutExpired", <<"timed out">>)
    /\ UNCHANGED <<driver, folders, command, fi, fs, tmpdir, output_data, error_type,
                   error_message, compute_success, exec_out, mrchem_output, execs,
                   parsed, returned, vvars>>

InputErrorPrefix == <<"Failure preparing input to MRChem\n ">>

WrapInputError_DropsMessage(e) == [type |-> "InputError", message |-> InputErrorPrefix]

\* Lines 229-230 and 244-245: except Exception as e: raise InputError(f"...{str(e)}")
WrapInputError(e) == [type |-> "InputError", message |-> InputErrorPrefix \o e.message]

\* Lines 227-240: validate(ir_in=opts), then the five folder paths are read
\* from what it returned; a missing section is a KeyError of build_input's own.
build_input_validate(outcome) ==
    /\ pc = "validate"
    /\ CASE outcome \in ExternalFailures ->
              /\ fault' = [src |-> "validate", type |-> outcome.type, message |-> outcome.message]
              /\ raised' = WrapInputError(outcome)
              /\ pc' = "done"
              /\ UNCHANGED folders
         [] outcome \in ValidatedOpts ->
              /\ folders' = << outcome.SCF.path_checkpoint, outcome.SCF.path_orbitals,
                              outcome.Response.path_checkpoint, outcome.Response.path_orbitals,
                              outcome.Plotter.path >>
              /\ pc' = "translate"
              /\ UNCHANGED <<fault, raised>>
         [] OTHER ->
              /\ fault' = [src |-> "build_input", type |-> "KeyError", message |-> <<"Plotter">>]
              /\ Raise("KeyError", <<"Plotter">>)
              /\ UNCHANGED folders
    /\ UNCHANGED <<driver, command, fi, fs, tmpdir, output_data, error_type,
                   error_message, compute_success, exec_out, mrchem_output, execs,
                   parsed, returned, vvars>>

\* Lines 242-260: translate_input(opts), then the command.
build_input_translate(outcome, use_mpiexec) ==
    /\ pc = "translate"
    /\ IF outcome \in ExternalFailures
          THEN /\ fault' = [src |-> "translate_input", type |-> outcome.type, message |-> outcome.message]
               /\ raised' = WrapInputError(outcome)
               /\ pc' = "done"
               /\ UNCHANGED command
          ELSE /\ command' = IF use_mpiexec THEN <<"mpiexec", "mrchem.x">> ELSE <<"mrchem.x">>
               /\ pc' = "output_data"
               /\ UNCHANGED <<fault, raised>>
    /\ UNCHANGED <<driver, folders, fi, fs, tmpdir, output_data, error_type,
                   error_message, compute_success, exec_out, mrchem_output, execs,
                   parsed, returned, vvars>>

\* Lines 106-116: output_data with empty properties, then the with block is
\* entered; temporary_directory raises when the directory cannot be made.
enter_with(created) ==
    /\ pc = "output_data"
    /\ output_data' = EmptyOutputData
    /\ IF created
          THEN tmpdir' = temporary_directory_enter /\ pc' = "folders" /\ UNCHANGED raised
          ELSE Raise("OSError", <<"cannot create scratch directory">>) /\ UNCHANGED tmpdir
    /\ UNCHANGED <<driver, folders, command, fi, fs, error_type, error_message,
                   compute_success, exec_out, mrchem_output, execs, parsed, fault,
                   returned, vvars>>

\* Lines 118-120: one turn of the loop over job_input["folders"].
create_folder ==
    /\ pc = "folders"
    /\ fi <= Len(folders)
    /\ LET d == folders[fi] IN
         IF PathExists(fs, d)
            THEN fi' = fi + 1 /\ UNCHANGED <<fs, tmpdir, raised, pc>>
            ELSE IF MkdirOk(fs, d)
                    THEN /\ fs' = [fs EXCEPT ![d] = "dir"]
                         /\ fi' = fi + 1
                         /\ UNCHANGED <<tmpdir, raised, pc>>
                    ELSE /\ RaiseInWith("FileNotFoundError", <<d>>)
                         /\ UNCHANGED <<fs, fi>>
    /\ UNCHANGED <<driver, folders, command, output_data, error_type, error_message,
                   compute_success, exec_out, mrchem_output, execs, parsed, fault,
                   returned, vvars>>

\* Lines 123-128: execute(command + ["data.json"], ...), once the loop is over.
execute(success, stderr, native) ==
    /\ pc = "folders"
    /\ fi > Len(folders)
    /\ execs' = execs + 1
    /\ exec_out' = [success |-> success, stderr |-> stderr,
                    native |-> IF success THEN native ELSE PyNone]
    /\ pc' = "executed"
    /\ UNCHANGED <<driver, folders, command, fi, fs, tmpdir, output_data, error_type,
                   error_message, compute_success, mrchem_output, parsed, fault,
                   raised, returned, vvars>>

\* Lines 130-157: the success branch reads data.json and fills output_data;
\* json.loads raises on a file that is not the program's JSON.
parse_output ==
    /\ pc = "executed"
    /\ exec_out.success
    /\ IF exec_out.native.malformed
          THEN /\ RaiseInWith("JSONDecodeError", <<"Expecting value">>)
               /\ UNCHANGED <<output_data, mrchem_output, parsed>>
          ELSE /\ mrchem_output' = exec_out.native
               /\ parsed' = TRUE
               /\ output_data' = [output_data EXCEPT
                                    !.stdout = TRUE,
                                    !.success = exec_out.native.success,
                                    !.driver = PyStr(driver),
                                    !.properties = PropertyKeys]
               /\ pc' = "driver"
               /\ UNCHANGED <<tmpdir, raised>>
    /\ UNCHANGED <<driver, folders, command, fi, fs, error_type, error_message,
                   compute_success, exec_out, execs, fault, returned, vvars>>

DriverBranch_ElseIsEnergy(d) == IF d = "properties" THEN "properties" ELSE "energy"

\* Lines 159-166: which arm of the if/elif/else a driver takes.
DriverBranch(d) ==
    IF d = "energy" THEN "energy" ELSE IF d = "properties" THEN "properties" ELSE "raise"

\* Lines 159-169: return_result by driver, then compute_success, and the
\* with block ends.
set_return_result ==
    /\ pc = "driver"
    /\ CASE DriverBranch(driver) = "energy" ->
              /\ output_data' = [output_data EXCEPT
                                   !.return_result = [py |-> "float", v |-> mrchem_output.E_tot]]
              /\ compute_success' = mrchem_output.success
              /\ tmpdir' = ExitWith(tmpdir, FALSE)
              /\ pc' = "dispatch"
              /\ UNCHANGED raised
         [] DriverBranch(driver) = "properties" ->
              IF mrchem_output.dipole
                 THEN /\ output_data' = [output_data EXCEPT
                                           !.return_result = [py |-> "list", v |-> "dip-1"],
                                           !.properties = @ \cup {"scf_dipole_moment"}]
                      /\ compute_success' = mrchem_output.success
                      /\ tmpdir' = ExitWith(tmpdir, FALSE)
                      /\ pc' = "dispatch"
                      /\ UNCHANGED raised
                 ELSE /\ RaiseInWith("KeyError", <<"dipole_moment">>)
                      /\ UNCHANGED <<output_data, compute_success>>
         [] OTHER ->
              /\ RaiseInWith("RuntimeError", <<"MRChem cannot run with ", driver, " driver">>)
              /\ UNCHANGED <<output_data, compute_success>>
    /\ UNCHANGED <<driver, folders, command, fi, fs, error_type, error_message,
                   exec_out, mrchem_output, execs, parsed, fault, returned, vvars>>

\* Lines 171-176: the failure branch records stderr and the error record, and
\* the with block ends. error_message is not assigned.
record_execution_error ==
    /\ pc = "executed"
    /\ ~exec_out.success
    /\ output_data' = [output_data EXCEPT
                         !.stderr = PyStr(exec_out.stderr),
                         !.error = [error_message |-> exec_out.stderr,
                                    error_type |-> "execution_error"]]
    /\ tmpdir' = ExitWith(tmpdir, FALSE)
    /\ pc' = "dispatch"
    /\ UNCHANGED <<driver, folders, command, fi, fs, error_type, error_message,
                   compute_success, exec_out, mrchem_output, execs, parsed, fault,
                   raised, returned, vvars>>

\* Lines 181-184: the exception the dispatch raises for a value of
\* error_message; `"SIGSEV" in None` is a TypeError.
DispatchRaise(msg) ==
    IF msg = PyNone
       THEN [type |-> "TypeError", message |-> <<"argument of type 'NoneType' is not iterable">>]
       ELSE IF PyIn(T_SIGSEV, msg.s) \/ PyIn(T_SIGSEGV, msg.s) \/ PyIn(T_segfault, msg.s)
               THEN [type |-> "RandomError", message |-> msg.s]
               ELSE [type |-> "UnknownError", message |-> msg.s]

dispatch_errors_Retries ==
    /\ pc = "dispatch"
    /\ compute_success = FALSE
    /\ pc' = "folders"
    /\ tmpdir' = temporary_directory_enter
    /\ UNCHANGED <<driver, folders, command, fi, fs, output_data, error_type,
                   error_message, compute_success, exec_out, mrchem_output, execs,
                   parsed, fault, raised, returned, vvars>>

\* Lines 179-184: if compute_success is False.
dispatch_errors ==
    /\ pc = "dispatch"
    /\ compute_success = FALSE
    /\ raised' = DispatchRaise(error_message)
    /\ pc' = "done"
    /\ UNCHANGED <<driver, folders, command, fi, fs, tmpdir, output_data, error_type,
                   error_message, compute_success, exec_out, mrchem_output, execs,
                   parsed, fault, returned, vvars>>

\* Lines 186-189: provenance, and the AtomicResult is returned.
return_result ==
    /\ pc = "dispatch"
    /\ compute_success # FALSE
    /\ output_data' = [output_data EXCEPT !.provenance = TRUE]
    /\ returned' = output_data'
    /\ pc' = "done"
    /\ UNCHANGED <<driver, folders, command, fi, fs, tmpdir, error_type,
                   error_message, compute_success, exec_out, mrchem_output, execs,
                   parsed, fault, raised, vvars>>

-----------------------------------------------------------------------------
(* get_version, lines 79-90, for the threads in callers.                    *)

NumThreads == 2
MaxQueries == 3

Threads == 1..NumThreads
ExePaths == {"/opt/a/mrchem.x", "/opt/b/mrchem.x", "/opt/c/mrchem.x"}

\* What "<path> --version" prints; the installed program at a path does not
\* change while the process lives.
VersionStdout(p) ==
    CASE p = "/opt/a/mrchem.x" -> <<"M","R","C"," ","v","1",".","0","\n">>
      [] p = "/opt/b/mrchem.x" -> <<"1",".","1">>
      [] OTHER -> <<"\n">>

IsSpace(c) == c \in {" ", "\n", "\t"}

RECURSIVE SplitFrom(_, _, _)
\* str.split(): the maximal runs of characters that are not whitespace.
SplitFrom(text, i, word) ==
    IF i > Len(text)
       THEN IF word = <<>> THEN <<>> ELSE <<word>>
       ELSE IF IsSpace(text[i])
               THEN (IF word = <<>> THEN <<>> ELSE <<word>>) \o SplitFrom(text, i + 1, <<>>)
               ELSE SplitFrom(text, i + 1, Append(word, text[i]))

Split(text) == SplitFrom(text, 1, <<>>)

\* safe_version: the normalised version string (a leading "v" is dropped).
safe_version(tok) == IF tok # <<>> /\ Head(tok) = "v" THEN Tail(tok) ELSE tok

NotCached == <<>>

RECURSIVE Launched(_, _)
\* The subprocesses launched so far, over the paths in S.
Launched(q, S) ==
    IF S = {} THEN 0
    ELSE LET p == CHOOSE x \in S : TRUE IN q[p] + Launched(q, S \ {p})

CacheMiss_Always(cache, p) == TRUE

\* Line 83: which_prog not in self.version_cache
CacheMiss(cache, p) == cache[p] = NotCached

CacheStore_Rebinds(cache, p, v) == [q \in ExePaths |-> IF q = p THEN v ELSE NotCached]

\* Line 86: self.version_cache[which_prog] = ...
CacheStore(cache, p, v) == [cache EXCEPT ![p] = v]

VersionIdle ==
    /\ vpc = [t \in Threads |-> "idle"]
    /\ which_prog = [t \in Threads |-> "None"]
    /\ exc_stdout = [t \in Threads |-> <<>>]
    /\ vret = [t \in Threads |-> <<>>]
    /\ vraised = [t \in Threads |-> "None"]
    /\ version_cache = [p \in ExePaths |-> NotCached]
    /\ queries = [p \in ExePaths |-> 0]
    /\ writes = [p \in ExePaths |-> 0]
    /\ hitq = [t \in Threads |-> 0]

\* Lines 80-82: found(raise_error=True), then which("mrchem.x").
get_version(t, installed, path) ==
    /\ t \in callers
    /\ vpc[t] = "idle"
    /\ vret' = [vret EXCEPT ![t] = <<>>]
    /\ hitq' = [hitq EXCEPT ![t] = 0]
    /\ exc_stdout' = [exc_stdout EXCEPT ![t] = <<>>]
    /\ IF installed
          THEN /\ which_prog' = [which_prog EXCEPT ![t] = path]
               /\ vraised' = [vraised EXCEPT ![t] = "None"]
               /\ vpc' = [vpc EXCEPT ![t] = "check"]
          ELSE /\ which_prog' = [which_prog EXCEPT ![t] = "None"]
               /\ vraised' = [vraised EXCEPT ![t] = "ModuleNotFoundError"]
               /\ UNCHANGED vpc
    /\ UNCHANGED <<version_cache, queries, writes, callers, cvars>>

\* Line 83: the membership test.
check_cache(t) ==
    /\ vpc[t] = "check"
    /\ vpc' = [vpc EXCEPT ![t] =
                 IF CacheMiss(version_cache, which_prog[t]) THEN "popen" ELSE "read"]
    /\ UNCHANGED <<which_prog, exc_stdout, vret, vraised, version_cache, queries,
                   writes, hitq, callers, cvars>>

\* Lines 84-85: the subprocess is launched and waited for; wait(timeout=30)
\* raises when it does not answer in time.
popen_version(t, responds) ==
    /\ vpc[t] = "popen"
    /\ Launched(queries, ExePaths) < MaxQueries
    /\ queries' = [queries EXCEPT ![which_prog[t]] = @ + 1]
    /\ hitq' = [hitq EXCEPT ![t] = @ + 1]
    /\ IF responds
          THEN /\ exc_stdout' = [exc_stdout EXCEPT ![t] = VersionStdout(which_prog[t])]
               /\ vpc' = [vpc EXCEPT ![t] = "store"]
               /\ UNCHANGED vraised
          ELSE /\ vraised' = [vraised EXCEPT ![t] = "TimeoutExpired"]
               /\ vpc' = [vpc EXCEPT ![t] = "idle"]
               /\ UNCHANGED exc_stdout
    /\ UNCHANGED <<which_prog, vret, version_cache, writes, callers, cvars>>

\* Line 86: the last token of stdout, normalised, is stored; [-1] of an empty
\* list is an IndexError. The captured output is not used again.
store_version(t) ==
    /\ vpc[t] = "store"
    /\ exc_stdout' = [exc_stdout EXCEPT ![t] = <<>>]
    /\ LET toks == Split(exc_stdout[t]) IN
         IF toks = <<>>
            THEN /\ vraised' = [vraised EXCEPT ![t] = "IndexError"]
                 /\ vpc' = [vpc EXCEPT ![t] = "idle"]
                 /\ UNCHANGED <<version_cache, writes>>
            ELSE /\ version_cache' = CacheStore(version_cache, which_prog[t],
                                                safe_version(toks[Len(toks)]))
                 /\ writes' = [writes EXCEPT ![which_prog[t]] = @ + 1]
                 /\ vpc' = [vpc EXCEPT ![t] = "read"]
                 /\ UNCHANGED vraised
    /\ UNCHANGED <<which_prog, vret, queries, hitq, callers, cvars>>

\* Lines 88-90: the cached string is returned.
read_version(t) ==
    /\ vpc[t] = "read"
    /\ vret' = [vret EXCEPT ![t] = version_cache[which_prog[t]]]
    /\ vpc' = [vpc EXCEPT ![t] = "idle"]
    /\ UNCHANGED <<which_prog, exc_stdout, vraised, version_cache, queries, writes,
                   hitq, callers, cvars>>

-----------------------------------------------------------------------------

ValidateOutcomes ==
    ExternalFailures \cup ValidatedOpts \cup
    {[SCF |-> [path_checkpoint |-> "checkpoint", path_orbitals |-> "orbitals"]]}

Init ==
    /\ pc = "idle"
    /\ IdleLocals
    /\ fs \in FsStates
    /\ VersionIdle
    /\ callers = {}

Next ==
    \/ \E d \in Drivers, installed \in BOOLEAN : compute(d, installed)
    \/ \E responds \in BOOLEAN : build_input_module(responds)
    \/ \E outcome \in ValidateOutcomes : build_input_validate(outcome)
    \/ \E outcome \in ExternalFailures \cup {PyNone}, use_mpiexec \in BOOLEAN :
          build_input_translate(outcome, use_mpiexec)
    \/ \E created \in BOOLEAN : enter_with(created)
    \/ create_folder
    \/ \E success \in BOOLEAN, stderr \in StderrTexts, native \in NativeOutputs :
          execute(success, stderr, native)
    \/ parse_output
    \/ set_return_result
    \/ record_execution_error
    \/ dispatch_errors
    \/ return_result

Spec == Init /\ [][Next]_vars

\* get_version called from every thread, and from one thread only.
InitVersion ==
    /\ pc = "idle"
    /\ IdleLocals
    /\ fs = [p \in PathNames |-> "absent"]
    /\ VersionIdle
    /\ callers = Threads

InitVersionSeq ==
    /\ pc = "idle"
    /\ IdleLocals
    /\ fs = [p \in PathNames |-> "absent"]
    /\ VersionIdle
    /\ callers = {1}

NextVersion ==
    \/ \E t \in Threads, installed \in BOOLEAN, path \in ExePaths :
          get_version(t, installed, path)
    \/ \E t \in Threads : check_cache(t)
    \/ \E t \in Threads, responds \in BOOLEAN : popen_version(t, responds)
    \/ \E t \in Threads : store_version(t)
    \/ \E t \in Threads : read_version(t)

SpecVersion == InitVersion /\ [][NextVersion]_vars
SpecVersionSeq == InitVersionSeq /\ [][NextVersion]_vars


-----------------------------------------------------------------------------
(* The claims about compute, under Spec.                                    *)

SupportedDrivers == {"energy", "properties"}

\* The run reached the main program, which exited successfully and left a
\* well-formed data.json holding what the driver reads.
WellFormedRun ==
    /\ execs = 1
    /\ exec_out.success
    /\ ~exec_out.native.malformed
    /\ (driver = "properties" => exec_out.native.dipole)

\* The failure kinds of the adapter's taxonomy, as the exceptions that carry them.
TaxonomyFaults ==
    {"ModuleNotFoundError", "TimeoutExpired", "InputError", "RandomError",
     "UnknownError", "RuntimeError"}

FullySuccessful(r) ==
    /\ r # PyNone
    /\ r.properties # {}
    /\ r.return_result # PyNone
    /\ r.error = PyNone

\* C1: on each of the three paths (the process fails; the process succeeds and
\* the program's flag is false; both succeed), a call ends either with a fully
\* successful result (properties, return_result, no error record) or fully
\* failed: an error record populated and no properties, handed over as the
\* result's error record on the process-failure path and as a fault of the
\* taxonomy elsewhere. Never a hybrid.
C1_NeverHybrid ==
    (pc = "done" /\ execs = 1 /\ (~exec_out.success \/ WellFormedRun)) =>
        \/ raised = NoRaise /\ FullySuccessful(returned)
        \/ /\ ~exec_out.success
           /\ raised = NoRaise /\ returned # PyNone
           /\ returned.error # PyNone /\ returned.properties = {}
        \/ /\ exec_out.success
           /\ returned = PyNone /\ raised.type \in TaxonomyFaults

\* The crash tokens, matched without regard to case.
HasCrashToken(text) ==
    LET l == ToLower(text) IN
      PyIn(ToLower(T_SIGSEGV), l) \/ PyIn(ToLower(T_SIGSEV), l) \/ PyIn(ToLower(T_segfault), l)

\* C2: when the process exits successfully and the program's own success flag
\* is false, compute ends with RandomError if stderr holds one of the crash
\* tokens in any case, and with UnknownError otherwise.
C2_FlagFalseClassified ==
    (pc = "done" /\ WellFormedRun /\ driver \in SupportedDrivers
       /\ ~exec_out.native.success) =>
        raised.type = (IF HasCrashToken(exec_out.stderr) THEN "RandomError" ELSE "UnknownError")

\* C3: when the main process fails, nothing is raised: compute returns a result
\* whose error record has kind execution_error and the captured stderr as its
\* message, with empty properties.
C3_ProcessFailureReturned ==
    (pc = "done" /\ execs = 1 /\ ~exec_out.success) =>
        /\ raised = NoRaise
        /\ returned # PyNone
        /\ returned.error = [error_message |-> exec_out.stderr, error_type |-> "execution_error"]
        /\ returned.properties = {}

UnsupportedDriverFault ==
    [type |-> "RuntimeError", message |-> <<"MRChem cannot run with ", driver, " driver">>]

\* C4 as stated: a driver outside {energy, properties} ends the call with the
\* unsupported-driver fault naming it, and the native output was never parsed.
C4_NeverReachesParsing ==
    (pc = "done" /\ driver \notin SupportedDrivers /\ execs = 1 /\ exec_out.success
       /\ ~exec_out.native.malformed) =>
        raised = UnsupportedDriverFault /\ ~parsed

\* C4 as amended: when the process exits successfully and its output parses, a
\* driver outside {energy, properties} ends the call with the unsupported-driver
\* fault naming it, raised after the native output has been parsed, whatever
\* the program's success flag; that fault is raised for no other driver, and a
\* call whose process failed never raises it.
C4_UnsupportedDriverAfterParsing ==
    /\ (pc = "done" /\ driver \notin SupportedDrivers /\ execs = 1 /\ exec_out.success
          /\ ~exec_out.native.malformed) =>
           raised = UnsupportedDriverFault /\ parsed /\ returned = PyNone
    /\ (pc = "done" /\ raised.type = "RuntimeError") =>
           driver \notin SupportedDrivers /\ parsed /\ exec_out.success

C4_Witness ==
    /\ pc = "done" /\ driver = "gradient" /\ parsed /\ ~mrchem_output.success
    /\ raised = UnsupportedDriverFault

\* C6: a failure of validate or translate_input ends compute with InputError
\* carrying that failure's message, and the main program is not run in that
\* call; any other fault of build_input leaves compute as it was raised.
C6_TranslationFailures ==
    (pc = "done" /\ fault # NoFault) =>
        /\ execs = 0
        /\ returned = PyNone
        /\ IF fault.src \in {"validate", "translate_input"}
              THEN raised.type = "InputError" /\ PyIn(fault.message, raised.message)
              ELSE raised = [type |-> fault.type, message |-> fault.message]

C6_Witness ==
    /\ pc = "done" /\ fault.src = "translate_input" /\ fault.type = "ValueError"
    /\ raised.type = "InputError" /\ execs = 0

\* C7: once the with block has been left, by its end or by an exception raised
\* while the folders are made, the output is parsed or the driver is examined,
\* the call's scratch directory is gone.
C7_ScratchRemoved ==
    pc \in {"dispatch", "done"} => tmpdir # "exists"

C7_Witness ==
    /\ pc = "done" /\ tmpdir = "removed"
    /\ raised.type \in {"FileNotFoundError", "JSONDecodeError", "RuntimeError"}

\* C9: when the main program is about to be invoked, every path in folders is
\* a directory.
C9_FoldersExistAtInvocation ==
    (pc = "folders" /\ fi > Len(folders)) =>
        \A i \in 1..Len(folders) : fs[folders[i]] = "dir"

\* The phase of the call's state machine a position belongs to.
Phase ==
    CASE pc = "idle" -> "Idle"
      [] pc \in {"build_input", "validate", "translate"} -> "Translating"
      [] pc \in {"output_data", "folders"} -> "Executing"
      [] pc \in {"executed", "driver", "dispatch"} -> "Normalizing"
      [] OTHER -> IF returned # PyNone THEN "Succeeded" ELSE "Failed"

Rank(ph) ==
    CASE ph = "Idle" -> 0 [] ph = "Translating" -> 1 [] ph = "Executing" -> 2
      [] ph = "Normalizing" -> 3 [] OTHER -> 4

\* C10: within a call the phase only stays, moves to the next one, or ends in
\* Succeeded or Failed; the end is exactly one of a returned result and a raised
\* fault, and stays until the next call begins; the main program is run at
\* most once per call.
C10_PhasesInOrder ==
    [][ \/ pc \in {"idle", "done"} /\ execs' = 0 /\ Phase' \in {"Translating", "Failed"}
        \/ /\ pc \notin {"idle", "done"}
           /\ Rank(Phase') \in {Rank(Phase), Rank(Phase) + 1, 4}
           /\ execs' \in {execs, execs + 1} /\ execs' <= 1
           /\ (pc' = "done" => (returned' # PyNone) # (raised' # NoRaise)) ]_vars

C10_Witness ==
    pc = "done" /\ execs = 1 /\ returned # PyNone /\ raised = NoRaise

-----------------------------------------------------------------------------
(* The claims about get_version.                                            *)

\* C5 as stated, under SpecVersionSeq: for each path at most one version
\* subprocess is ever launched.
C5_AtMostOneQuery ==
    \A p \in ExePaths : queries[p] <= 1

\* C5 as amended, under SpecVersionSeq: for each path at most one query's
\* answer is ever stored; once a path is cached no call launches a subprocess
\* for it, and a call that returns returns the cached string.
C5_AtMostOneStoredQuery ==
    [][ /\ \A p \in ExePaths :
             /\ writes'[p] <= 1
             /\ version_cache[p] # NotCached => queries'[p] = queries[p]
        /\ \A t \in Threads :
             vret'[t] # <<>> => vret'[t] = version_cache'[which_prog'[t]] ]_vars

\* A second call for a path that was queried once returns from the cache.
C5_Witness ==
    \E p \in ExePaths :
      /\ which_prog[1] = p /\ vpc[1] = "idle" /\ vret[1] # <<>>
      /\ hitq[1] = 0 /\ queries[p] = 1 /\ writes[p] = 1

\* C8 as stated, under SpecVersion: each key is written at most once.
C8_WrittenAtMostOnce ==
    \A p \in ExePaths : writes[p] <= 1

\* C8 as amended, under SpecVersion: an entry of the cache is never removed
\* and never changes, so a writer that races another for a key stores the
\* value that is already there.
C8_AppendOnly ==
    [][ \A p \in ExePaths :
          version_cache[p] # NotCached => version_cache'[p] = version_cache[p] ]_vars

\* Two callers both missed and both stored the same key.
C8_Witness ==
    \E p \in ExePaths : writes[p] = 2 /\ version_cache[p] = safe_version(<<"v","1",".","0">>)

====
